---- MODULE Spec2Model ----
(***************************************************************************)
(* Model of the generation pipeline of services/ai-orchestrator:           *)
(* POMLClaudeToolTrainIntegration (_render, generate, health_check), the   *)
(* POMLClaudeOrchestrator.orchestrate adapter and the /orchestrate         *)
(* endpoint of service.py.                                                 *)
(*                                                                         *)
(* A text (Python str) is a sequence of lexemes; each lexeme stands for a  *)
(* run of characters, so that concatenating content blocks and parsing the *)
(* concatenation are computed, not assumed.  A Python value is a record    *)
(* [type, v] whose type is the Python type name.                           *)
(*                                                                         *)
(* Record constructors list their fields in the order in which the field   *)
(* names first occur in this module, which is the order TLC stores them    *)
(* in; records built that way are never reordered while workers read them. *)
(***************************************************************************)
EXTENDS Integers, Sequences, FiniteSets, TLC

\* ------------------------------------------------------------------ bounds
NumTasks == 2
MaxBlocks == 2

Tasks == 1..NumTasks
Main == 1

\* ----------------------------------------------------------- Python values
PyNone == [type |-> "NoneType", v |-> <<>>]
PyStr(s) == [type |-> "str", v |-> s]
PyList(items) == [type |-> "list", v |-> items]
PyDict(pairs) == [type |-> "dict", v |-> pairs]
PyBool(lexeme) == [type |-> "bool", v |-> <<lexeme>>]

IntLexemes == {"0", "7"}
FloatLexemes == {"0.9"}
PyNumber(lexeme) ==
  [type |-> IF lexeme \in FloatLexemes THEN "float" ELSE "int", v |-> <<lexeme>>]

\* bool(x): None, "", 0, [], {} and False are falsy.
Truthy(x) ==
  CASE x.type = "NoneType" -> FALSE
    [] x.type \in {"int", "float"} -> x.v # <<"0">>
    [] x.type = "bool" -> x.v = <<"true">>
    [] OTHER -> x.v # <<>>

\* x or y
PyOr(x, y) == IF Truthy(x) THEN x ELSE y

\* A dict is a sequence of <<key, value>> pairs in insertion order.
DictHas(d, k) == \E i \in 1..Len(d) : d[i][1] = k

DictGet(d, k, default) ==
  IF DictHas(d, k)
  THEN d[CHOOSE i \in 1..Len(d) : d[i][1] = k][2]
  ELSE default

DictSet(d, k, val) ==
  IF DictHas(d, k)
  THEN [i \in 1..Len(d) |-> IF d[i][1] = k THEN <<k, val>> ELSE d[i]]
  ELSE Append(d, <<k, val>>)

DictKeys(d) == [i \in 1..Len(d) |-> d[i][1]]

RECURSIVE DictUpdate(_, _)
DictUpdate(d, e) ==
  IF e = <<>> THEN d
  ELSE DictUpdate(DictSet(d, e[1][1], e[1][2]), Tail(e))

\* ------------------------------------------------------------- json.loads
Quote == "\""
Whitespace == {" "}

Failed == [val |-> PyNone, ok |-> FALSE, next |-> 0]
Parsed(val, next) == [val |-> val, ok |-> TRUE, next |-> next]

RECURSIVE SkipWs(_, _)
SkipWs(s, i) ==
  IF i <= Len(s) /\ s[i] \in Whitespace THEN SkipWs(s, i + 1) ELSE i

At(s, i, lexeme) == i <= Len(s) /\ s[i] = lexeme

scan_string(s, j) ==
  LET closing == {k \in (j + 1)..Len(s) : s[k] = Quote} IN
  IF ~At(s, j, Quote) \/ closing = {} THEN Failed
  ELSE LET k == CHOOSE x \in closing : \A y \in closing : x <= y
       IN Parsed(PyStr(SubSeq(s, j + 1, k - 1)), k + 1)

RECURSIVE scan_value(_, _)
RECURSIVE scan_array(_, _, _)
RECURSIVE scan_object(_, _, _)

scan_array(s, i, acc) ==
  LET item == scan_value(s, i) IN
  IF ~item.ok THEN Failed
  ELSE LET n == SkipWs(s, item.next) IN
       IF At(s, n, ",") THEN scan_array(s, n + 1, Append(acc, item.val))
       ELSE IF At(s, n, "]") THEN Parsed(PyList(Append(acc, item.val)), n + 1)
       ELSE Failed

scan_object(s, i, acc) ==
  LET key == scan_string(s, SkipWs(s, i)) IN
  IF ~key.ok THEN Failed
  ELSE LET m == SkipWs(s, key.next) IN
       IF ~At(s, m, ":") THEN Failed
       ELSE LET member == scan_value(s, m + 1) IN
            IF ~member.ok THEN Failed
            ELSE LET n == SkipWs(s, member.next)
                     d == DictSet(acc, key.val.v, member.val)
                 IN IF At(s, n, ",") THEN scan_object(s, n + 1, d)
                    ELSE IF At(s, n, "}") THEN Parsed(PyDict(d), n + 1)
                    ELSE Failed

scan_value(s, i) ==
  LET j == SkipWs(s, i) IN
  IF j > Len(s) THEN Failed
  ELSE CASE s[j] = Quote -> scan_string(s, j)
         [] s[j] = "{" ->
              LET k == SkipWs(s, j + 1) IN
              IF At(s, k, "}") THEN Parsed(PyDict(<<>>), k + 1)
              ELSE scan_object(s, j + 1, <<>>)
         [] s[j] = "[" ->
              LET k == SkipWs(s, j + 1) IN
              IF At(s, k, "]") THEN Parsed(PyList(<<>>), k + 1)
              ELSE scan_array(s, j + 1, <<>>)
         [] s[j] = "null" -> Parsed(PyNone, j + 1)
         [] s[j] \in {"true", "false"} -> Parsed(PyBool(s[j]), j + 1)
         [] s[j] \in IntLexemes \cup FloatLexemes -> Parsed(PyNumber(s[j]), j + 1)
         [] OTHER -> Failed

\* json.loads(text): ok = FALSE stands for json.JSONDecodeError.
loads(text) ==
  LET r == scan_value(text, 1) IN
  IF r.ok /\ SkipWs(text, r.next) = Len(text) + 1
  THEN [val |-> r.val, ok |-> TRUE]
  ELSE [val |-> PyNone, ok |-> FALSE]

\* ---------------------------------------------------------- configuration
DefaultMaxTokens == 100000
PingMaxTokens == 10

\* IntegratedConfig() with ANTHROPIC_API_KEY set (validate() passed).
IntegratedConfig ==
  [anthropic_api_key |-> <<"sk-key">>,
   claude_model |-> <<"claude-4">>,
   max_tokens |-> DefaultMaxTokens,
   temperature |-> <<"0.7">>,
   templates_dir |-> <<"./templates">>]

\* self.tools: the registry's keys, in insertion order.
ToolRegistry == <<"repository_search", "code_generation", "validation">>

\* Template files present under templates_dir.
TemplateFiles == {<<"code_review">>}

VARIABLES
  config,     \* self.config
  tools,      \* self.tools
  HAS_POML,   \* module flag set by the optional import
  templates,  \* names of the *.poml files under config.templates_dir
  task        \* one entry per coroutine running an entry point

vars == <<config, tools, HAS_POML, templates, task>>

\* ------------------------------------------------------- IntegratedResponse
Elapsed == [type |-> "float", v |-> <<"perf_counter() - t0">>]

IntegratedResponse(success, response, error, metadata, confidence_score, reasoning_chain, localized_elements) ==
  [success |-> success,
   response |-> response,
   error |-> error,
   metadata |-> metadata,
   confidence_score |-> confidence_score,
   reasoning_chain |-> reasoning_chain,
   localized_elements |-> localized_elements]

\* str(e)
ExcStr(e) == PyStr(e.message)

Exc(cls, message) == [message |-> message, cls |-> cls]

\* Mutant of FailureResponse: the failure metadata also names the model.
FailureResponseWithModel(e) ==
  IntegratedResponse(FALSE, PyNone, ExcStr(e),
                     PyDict(<< <<<<"processing_time">>, Elapsed>>,
                               <<<<"model_used">>, PyStr(config.claude_model)>> >>),
                     PyNone, PyNone, PyNone)

\* The except-Exception branch of generate.
FailureResponse(e) ==
  IntegratedResponse(FALSE, PyNone, ExcStr(e),
                     PyDict(<< <<<<"processing_time">>, Elapsed>> >>),
                     PyNone, PyNone, PyNone)

SuccessMetadata ==
  PyDict(<< <<<<"processing_time">>, Elapsed>>,
            <<<<"model_used">>, PyStr(config.claude_model)>> >>)

\* ---------------------------------------------------------------- _render
\* pf.render(ctx) of the templating library: the text of the named template
\* with the bound variable names, in binding order.
RECURSIVE Flatten(_)
Flatten(texts) ==
  IF texts = <<>> THEN <<>> ELSE Head(texts) \o Flatten(Tail(texts))

PomlRender(name, ctx) ==
  <<"<poml>">> \o name \o Flatten(DictKeys(ctx)) \o <<"</poml>">>

PomlError == Exc("PomlError", <<"template could not be rendered">>)

\* Mutant of _render: the template file is opened without tpl.exists().
RenderWithoutExistsCheck(prompt, template_name, variables, engine) ==
  IF Truthy(template_name) /\ HAS_POML
  THEN IF engine = "raises" \/ template_name.v \notin templates
       THEN [text |-> <<>>, raised |-> TRUE, exc |-> PomlError]
       ELSE [text |-> PomlRender(template_name.v,
                                 DictUpdate(<<>>, PyOr(variables, PyDict(<<>>)).v)),
             raised |-> FALSE,
             exc |-> PomlError]
  ELSE [text |-> prompt, raised |-> FALSE, exc |-> PomlError]

\* engine: what the templating library does when it is used ("renders" or
\* "raises").  Result: the text returned, or the exception raised.
_render(prompt, template_name, variables, engine) ==
  IF Truthy(template_name) /\ HAS_POML /\ template_name.v \in templates
  THEN IF engine = "raises"
       THEN [text |-> <<>>, raised |-> TRUE, exc |-> PomlError]
       ELSE [text |-> PomlRender(template_name.v,
                                 DictUpdate(<<>>, PyOr(variables, PyDict(<<>>)).v)),
             raised |-> FALSE,
             exc |-> PomlError]
  ELSE [text |-> prompt, raised |-> FALSE, exc |-> PomlError]

\* --------------------------------------------------------------- generate
\* self.claude.messages.create(...) of generate.
GenerateCall(rendered) ==
  [max_tokens |-> config.max_tokens,
   temperature |-> PyStr(config.temperature),
   model |-> config.claude_model,
   content |-> rendered]

\* A content block: a text block carries text, any other block has no text
\* attribute.
TextBlock(text) == [type |-> "text", text |-> text]
ToolUseBlock == [type |-> "tool_use", text |-> <<>>]

\* Mutant of JoinText: " ".join(...) instead of "".join(...).
RECURSIVE JoinTextSpaced(_)
JoinTextSpaced(content) ==
  IF content = <<>> THEN <<>>
  ELSE (IF Head(content).type = "text" THEN Head(content).text ELSE <<>>)
       \o (IF Tail(content) = <<>> THEN <<>> ELSE <<" ">> \o JoinTextSpaced(Tail(content)))

\* "".join(getattr(b, "text", "") for b in rsp.content)
RECURSIVE JoinText(_)
JoinText(content) ==
  IF content = <<>> THEN <<>>
  ELSE (IF Head(content).type = "text" THEN Head(content).text ELSE <<>>)
       \o JoinText(Tail(content))

AttributeError(obj) ==
  Exc("AttributeError", <<"'", obj.type, "' object has no attribute 'get'">>)

Returned(value) == [value |-> value, kind |-> "return"]
Raised(exc) == [value |-> exc, kind |-> "raise"]
NotYet == [value |-> PyNone, kind |-> "none"]

\* Mutant of StructuredResponse: the text is the raw reply, primary_response
\* is not read.
StructuredResponseRawText(obj, text) ==
  IntegratedResponse(
    TRUE,
    PyStr(text),
    PyNone,
    SuccessMetadata,
    DictGet(obj.v, <<"confidence_score">>, PyNone),
    DictGet(obj.v, <<"reasoning_chain">>, PyList(<<>>)),
    DictGet(obj.v, <<"localized_elements">>, PyList(<<>>)))

\* Lines 79-86: the record built from a parsed reply obj.
StructuredResponse(obj, text) ==
  IntegratedResponse(
    TRUE,
    DictGet(obj.v, <<"primary_response">>, PyStr(text)),
    PyNone,
    SuccessMetadata,
    DictGet(obj.v, <<"confidence_score">>, PyNone),
    DictGet(obj.v, <<"reasoning_chain">>, PyList(<<>>)),
    DictGet(obj.v, <<"localized_elements">>, PyList(<<>>)))

\* Lines 88-92: the record built when the reply is not JSON.
PlainResponse(text) ==
  IntegratedResponse(TRUE, PyStr(text), PyNone, SuccessMetadata,
                     PyNone, PyNone, PyNone)

\* Lines 76-92, the statements of the try block after the await: the record
\* returned, or the exception that leaves the inner try statement (only
\* json.JSONDecodeError is handled there; obj.get on a value that is not a
\* dict raises AttributeError).
generate_body(content) ==
  LET text == JoinText(content)
      obj == loads(text)
  IN IF ~obj.ok THEN Returned(PlainResponse(text))
     ELSE IF obj.val.type # "dict" THEN Raised(AttributeError(obj.val))
     ELSE Returned(StructuredResponse(obj.val, text))

\* Classes derived from Exception: what "except Exception" handles.
ExceptionClasses ==
  {"Exception", "AttributeError", "PomlError", "AuthenticationError",
   "APIConnectionError", "APIResponseValidationError"}

\* Mutant of ExceptException: only the remote client's errors are handled.
ExceptApiError(e) ==
  e.cls \in {"AuthenticationError", "APIConnectionError", "APIResponseValidationError"}

ExceptException(e) == e.cls \in ExceptionClasses

\* Lines 93-94: the outer except clause applied to the outcome of the try
\* block.
generate_except(outcome) ==
  IF outcome.kind = "raise" /\ ExceptException(outcome.value)
  THEN Returned(FailureResponse(outcome.value))
  ELSE outcome

\* ---------------------------------------------------------- entry points
\* A request: GeneratePayload / the keyword arguments of generate (context
\* and tools are None there) or an OrchestrationRequest.
Request(prompt, template_name, variables, context, tool_names) ==
  [tools |-> tool_names, prompt |-> prompt, template_name |-> template_name,
   variables |-> variables, context |-> context]

NoRequest == Request(<<>>, PyNone, PyNone, PyNone, PyNone)
NoOutcome == [exc |-> Exc("", <<>>), content |-> <<>>, kind |-> "none"]
Reply(content) == [exc |-> Exc("", <<>>), content |-> content, kind |-> "reply"]
Failure(exc) == [exc |-> exc, content |-> <<>>, kind |-> "error"]

Idle ==
  [pc |-> "idle", op |-> "none", req |-> NoRequest, sent |-> <<>>,
   rsp |-> NoOutcome, gen |-> NotYet, ret |-> NotYet]

GenerateOps == {"generate", "orchestrate", "http_orchestrate"}

\* The variables generate is called with: orchestrate merges context and tools
\* into them (lines 170-174); the other callers pass them through.
PassedVariables(op, req) ==
  IF op = "orchestrate"
  THEN PyDict(DictSet(DictSet(PyOr(req.variables, PyDict(<<>>)).v,
                              <<"context">>, req.context),
                      <<"tools">>, req.tools))
  ELSE req.variables

Usage ==
  PyDict(<< <<<<"input_tokens">>, PyNumber("0")>>,
            <<<<"output_tokens">>, PyNumber("0")>> >>)

\* Lines 178-195 of POMLClaudeOrchestrator.orchestrate.
OrchestrateResult(req, result) ==
  IF result.success
  THEN Returned([metadata |-> PyOr(result.metadata, PyDict(<<>>)),
                 confidence_score |-> result.confidence_score,
                 reasoning_chain |-> result.reasoning_chain,
                 model |-> PyStr(config.claude_model),
                 content |-> PyOr(result.response, PyStr(<<>>)),
                 usage |-> Usage,
                 tools_used |-> PyOr(req.tools, PyList(<<>>))])
  ELSE Raised(Exc("Exception",
                  PyOr(result.error, PyStr(<<"Orchestration failed">>)).v))

\* service.py, the /orchestrate endpoint after its call of ai.generate.
HttpOrchestrateResult(res) ==
  Returned([metadata |-> PyOr(res.metadata, PyDict(<<>>)),
            confidence_score |-> res.confidence_score,
            reasoning_chain |-> res.reasoning_chain,
            model |-> PyStr(config.claude_model),
            content |-> res.response,
            usage |-> Usage,
            tools_used |-> PyList(<<>>)])

\* What the entry point op hands to its caller once its call of generate has
\* ended with gen; an exception leaving generate leaves the entry point too.
Finish(op, req, gen) ==
  IF gen.kind = "raise" THEN gen
  ELSE CASE op = "orchestrate" -> OrchestrateResult(req, gen.value)
         [] op = "http_orchestrate" -> HttpOrchestrateResult(gen.value)
         [] OTHER -> gen

\* health_check's request (lines 116-120) and results (lines 122-132).
HealthCall ==
  [max_tokens |-> PingMaxTokens,
   temperature |-> PyNone,
   model |-> config.claude_model,
   content |-> <<"ping">>]

Healthy ==
  Returned([model |-> config.claude_model, status |-> "healthy",
            has_poml |-> HAS_POML, tools_available |-> tools])

Unhealthy(e) ==
  IF ExceptException(e)
  THEN Returned([error |-> ExcStr(e), status |-> "unhealthy"])
  ELSE Raised(e)

\* --------------------------------------------------------------- actions
\* An entry point built on generate runs from its call to the await of the
\* remote call (lines 66-74); when _render raises, generate returns at once
\* through its except branch and the entry point finishes without suspending.
Call(t, op, req, engine) ==
  /\ task[t].pc = "idle"
  /\ LET r == _render(req.prompt, req.template_name,
                      PyOr(PassedVariables(op, req), PyDict(<<>>)), engine)
     IN IF r.raised
        THEN task' = [task EXCEPT ![t] =
               [pc |-> "done", op |-> op, req |-> req, sent |-> <<>>,
                rsp |-> NoOutcome, gen |-> generate_except(Raised(r.exc)),
                ret |-> Finish(op, req, generate_except(Raised(r.exc)))]]
        ELSE task' = [task EXCEPT ![t] =
               [pc |-> "awaiting", op |-> op, req |-> req,
                sent |-> <<GenerateCall(r.text)>>,
                rsp |-> NoOutcome, gen |-> NotYet, ret |-> NotYet]]
  /\ UNCHANGED <<config, tools, HAS_POML, templates>>

CallGenerate(t, req, engine) == Call(t, "generate", req, engine)
CallOrchestrate(t, req, engine) == Call(t, "orchestrate", req, engine)
CallHttpOrchestrate(t, req, engine) == Call(t, "http_orchestrate", req, engine)

\* Mutant of CallHealthCheck: the ping's token budget is set on the shared
\* configuration instead of being passed to the call.
CallHealthCheckLoweringBudget(t) ==
  /\ task[t].pc = "idle"
  /\ task' = [task EXCEPT ![t] =
       [pc |-> "awaiting", op |-> "health_check", req |-> NoRequest,
        sent |-> <<HealthCall>>,
        rsp |-> NoOutcome, gen |-> NotYet, ret |-> NotYet]]
  /\ config' = [config EXCEPT !.max_tokens = PingMaxTokens]
  /\ UNCHANGED <<tools, HAS_POML, templates>>

CallHealthCheck(t) ==
  /\ task[t].pc = "idle"
  /\ task' = [task EXCEPT ![t] =
       [pc |-> "awaiting", op |-> "health_check", req |-> NoRequest,
        sent |-> <<HealthCall>>,
        rsp |-> NoOutcome, gen |-> NotYet, ret |-> NotYet]]
  /\ UNCHANGED <<config, tools, HAS_POML, templates>>

\* Mutant of Resume: a failed remote call of generate is retried once.
ResumeWithRetry(t, outcome) ==
  /\ task[t].pc = "awaiting"
  /\ IF task[t].op = "health_check"
     THEN task' = [task EXCEPT ![t].pc = "done", ![t].rsp = outcome,
                     ![t].ret = IF outcome.kind = "reply" THEN Healthy
                                ELSE Unhealthy(outcome.exc)]
     ELSE IF outcome.kind = "error" /\ Len(task[t].sent) < 2
     THEN task' = [task EXCEPT ![t].sent = Append(@, @[1])]
     ELSE LET gen == generate_except(IF outcome.kind = "reply"
                                     THEN generate_body(outcome.content)
                                     ELSE Raised(outcome.exc))
          IN task' = [task EXCEPT ![t].pc = "done", ![t].rsp = outcome,
                        ![t].gen = gen,
                        ![t].ret = Finish(task[t].op, task[t].req, gen)]
  /\ UNCHANGED <<config, tools, HAS_POML, templates>>

\* The coroutine resumes with the outcome of its remote call and runs to its
\* return or raise.
Resume(t, outcome) ==
  /\ task[t].pc = "awaiting"
  /\ IF task[t].op = "health_check"
     THEN task' = [task EXCEPT ![t].pc = "done", ![t].rsp = outcome,
                     ![t].ret = IF outcome.kind = "reply" THEN Healthy
                                ELSE Unhealthy(outcome.exc)]
     ELSE LET gen == generate_except(IF outcome.kind = "reply"
                                     THEN generate_body(outcome.content)
                                     ELSE Raised(outcome.exc))
          IN task' = [task EXCEPT ![t].pc = "done", ![t].rsp = outcome,
                        ![t].gen = gen,
                        ![t].ret = Finish(task[t].op, task[t].req, gen)]
  /\ UNCHANGED <<config, tools, HAS_POML, templates>>

RemoteReplies(t, content) == Resume(t, Reply(content))
RemoteFails(t, exc) == Resume(t, Failure(exc))

\* The caller has taken the result; the coroutine is gone.
Consume(t) ==
  /\ task[t].pc = "done"
  /\ task' = [task EXCEPT ![t] = Idle]
  /\ UNCHANGED <<config, tools, HAS_POML, templates>>

\* ------------------------------------------------------------ input sets
Prompts == {<<"Say hello">>, <<"Return JSON">>}

\* None, "", a template whose file exists, a template whose file does not.
TemplateNames ==
  {PyNone, PyStr(<<>>), PyStr(<<"code_review">>), PyStr(<<"missing">>)}

StyleVariables == PyDict(<< <<<<"style">>, PyStr(<<"google">>)>> >>)
VariableMappings == {PyNone, StyleVariables}

GenerateRequests ==
  {Request(p, n, m, PyNone, PyNone) :
     p \in Prompts, n \in TemplateNames, m \in VariableMappings}

ProjectContext == PyDict(<< <<<<"project">>, PyStr(<<"report">>)>> >>)
ToolNames == PyList(<<PyStr(<<"validation">>)>>)

\* OrchestrationRequest values, with and without context and tool names.
OrchestrationRequests ==
  {Request(<<"Say hello">>, PyNone, PyNone, PyNone, PyNone),
   Request(<<"Return JSON">>, PyStr(<<"code_review">>), StyleVariables,
           ProjectContext, ToolNames),
   Request(<<"Say hello">>, PyStr(<<"missing">>), StyleVariables, PyNone, ToolNames),
   Request(<<"Return JSON">>, PyStr(<<>>), PyNone, ProjectContext, PyNone)}

\* GeneratePayload values posted to /orchestrate.
HttpRequests ==
  {Request(<<"Say hello">>, PyNone, PyNone, PyNone, PyNone),
   Request(<<"Return JSON">>, PyStr(<<"code_review">>), StyleVariables, PyNone, PyNone),
   Request(<<"Say hello">>, PyStr(<<"missing">>), StyleVariables, PyNone, PyNone)}

\* What the templating library may do when it is used.
EngineOutcomes == {"renders", "raises"}

\* Content blocks a reply is made of.  Several are fragments, so that only
\* the concatenation is (or is not) a JSON document.
Blocks ==
  {ToolUseBlock,
   TextBlock(<<"Hello!">>),
   TextBlock(<<"{", Quote, "primary_response", Quote, ":", Quote, "ok", Quote>>),
   TextBlock(<<"}">>),
   TextBlock(<<",", " ", Quote, "confidence_score", Quote, ":", "0.9", ",",
               Quote, "localized_elements", Quote, ":", "[", "7", "]", "}">>),
   TextBlock(<<"{", Quote, "reasoning_chain", Quote, ":", "[", "{", "}", "]">>),
   TextBlock(<<"{", Quote, "primary_response", Quote, ":", "null", "}">>),
   TextBlock(<<"7">>),
   TextBlock(<<"null">>),
   TextBlock(<<Quote, "ok", Quote>>),
   TextBlock(<<"[", " ", "]">>),
   TextBlock(<<"true">>)}

\* Every reply of at most n content blocks.
Replies(n) == UNION {[1..k -> Blocks] : k \in 0..n}

\* Failures the remote call propagates: authentication, transport, malformed
\* remote response.
RemoteFailures ==
  {Exc("AuthenticationError", <<"invalid x-api-key">>),
   Exc("APIConnectionError", <<"Connection error.">>),
   Exc("APIResponseValidationError",
       <<"Data returned by API invalid for expected schema.">>)}

\* The smaller input sets of the concurrent specification.
ConcurrentRequests ==
  {Request(<<"Say hello">>, PyNone, PyNone, PyNone, PyNone),
   Request(<<"Return JSON">>, PyStr(<<"code_review">>), StyleVariables,
           PyNone, ToolNames)}

ConcurrentReplies ==
  {<<TextBlock(<<"Hello!">>)>>,
   <<TextBlock(<<"{", Quote, "primary_response", Quote, ":", Quote, "ok", Quote>>),
     TextBlock(<<"}">>)>>,
   <<TextBlock(<<"7">>)>>}

ConcurrentFailures == {Exc("AuthenticationError", <<"invalid x-api-key">>)}

\* ---------------------------------------------------------- specifications
Init ==
  /\ config = IntegratedConfig
  /\ tools = ToolRegistry
  /\ HAS_POML \in BOOLEAN
  /\ templates = TemplateFiles
  /\ task = [t \in Tasks |-> Idle]

\* Any number of the tasks in flight at once.
Next ==
  \E t \in Tasks :
    \/ \E req \in ConcurrentRequests, e \in EngineOutcomes : CallGenerate(t, req, e)
    \/ \E req \in ConcurrentRequests, e \in EngineOutcomes : CallOrchestrate(t, req, e)
    \/ \E req \in ConcurrentRequests, e \in EngineOutcomes : CallHttpOrchestrate(t, req, e)
    \/ CallHealthCheck(t)
    \/ \E content \in ConcurrentReplies : RemoteReplies(t, content)
    \/ \E exc \in ConcurrentFailures : RemoteFails(t, exc)
    \/ Consume(t)

Spec == Init /\ [][Next]_vars

\* One call at a time, over every request, reply and failure.
NextSolo ==
  \/ \E req \in GenerateRequests, e \in EngineOutcomes : CallGenerate(Main, req, e)
  \/ \E req \in OrchestrationRequests, e \in EngineOutcomes : CallOrchestrate(Main, req, e)
  \/ \E req \in HttpRequests, e \in EngineOutcomes : CallHttpOrchestrate(Main, req, e)
  \/ CallHealthCheck(Main)
  \/ \E content \in Replies(MaxBlocks) : RemoteReplies(Main, content)
  \/ \E exc \in RemoteFailures : RemoteFails(Main, exc)
  \/ Consume(Main)

SpecSolo == Init /\ [][NextSolo]_vars

\* ------------------------------------------------------------ properties
Finished(t, op) == task[t].pc = "done" /\ task[t].op = op
Populated(x) == x.type # "NoneType"
MetadataKeys(r) == {r.metadata.v[i][1] : i \in 1..Len(r.metadata.v)}
RawText(t) == JoinText(task[t].rsp.content)

\* The in-order concatenation of the texts of the blocks that carry text.
RawConcatenation(content) ==
  Flatten([i \in 1..Len(content) |->
             IF content[i].type = "text" THEN content[i].text ELSE <<>>])

\* C1: generate always ends by returning a record with a success flag and
\* never raises, whatever rendering, the remote call and normalization did.
C1_GenerateAlwaysReturns ==
  \A t \in Tasks :
    task[t].pc = "done" /\ task[t].op \in GenerateOps =>
      /\ task[t].gen.kind = "return"
      /\ task[t].gen.value.success \in BOOLEAN
      /\ task[t].op = "generate" => task[t].ret = task[t].gen

\* C1 witness: generate has returned after its normalization hit a reply that
\* parses to a value that is not an object.
C1_Witness ==
  \E t \in Tasks :
    /\ Finished(t, "generate")
    /\ task[t].rsp.kind = "reply"
    /\ loads(RawText(t)).ok
    /\ loads(RawText(t)).val.type # "dict"
    /\ task[t].ret.kind = "return"

\* C2: every record returned by generate has exactly one of response and
\* error populated: response when success is true, error when it is false.
C2_ExactlyOneOfTextAndError ==
  \A t \in Tasks :
    Finished(t, "generate") /\ task[t].ret.kind = "return" =>
      LET r == task[t].ret.value IN
      /\ r.success => Populated(r.response) /\ ~Populated(r.error)
      /\ ~r.success => Populated(r.error) /\ ~Populated(r.response)

\* C3: whenever the remote call replied, generate returns success = true with
\* metadata holding the elapsed time and the model identifier, whatever the
\* reply text parses to.
C3_ReplyMeansSuccess ==
  \A t \in Tasks :
    Finished(t, "generate") /\ task[t].rsp.kind = "reply" =>
      /\ task[t].ret.kind = "return"
      /\ task[t].ret.value.success
      /\ MetadataKeys(task[t].ret.value) = {<<"processing_time">>, <<"model_used">>}

\* C4: for a reply whose concatenated text parses as an object, the text of
\* the record is the value of primary_response when the object has that field
\* and the raw concatenation otherwise; confidence score, reasoning steps and
\* localized elements are the matching fields, defaulting to None, [] and [].
StructuredReply(t) ==
  /\ Finished(t, "generate")
  /\ task[t].rsp.kind = "reply"
  /\ loads(RawText(t)).ok
  /\ loads(RawText(t)).val.type = "dict"

OkWithConfidence ==
  <<"{", Quote, "primary_response", Quote, ":", Quote, "ok", Quote,
    ",", " ", Quote, "confidence_score", Quote, ":", "0.9", ",",
    Quote, "localized_elements", Quote, ":", "[", "7", "]", "}">>

C4_StructuredFields ==
  \A t \in Tasks :
    StructuredReply(t) =>
      LET obj == loads(RawText(t)).val.v
          r == task[t].ret.value
          Field(k, default) ==
            IF \E i \in 1..Len(obj) : obj[i][1] = k
            THEN obj[CHOOSE i \in 1..Len(obj) : obj[i][1] = k][2]
            ELSE default
      IN /\ task[t].ret.kind = "return"
         /\ r.success
         /\ r.response = Field(<<"primary_response">>,
                               PyStr(RawConcatenation(task[t].rsp.content)))
         /\ r.confidence_score = Field(<<"confidence_score">>, PyNone)
         /\ r.reasoning_chain = Field(<<"reasoning_chain">>, PyList(<<>>))
         /\ r.localized_elements = Field(<<"localized_elements">>, PyList(<<>>))
         /\ RawText(t) = OkWithConfidence =>
              /\ r.response = PyStr(<<"ok">>)
              /\ r.confidence_score = PyNumber("0.9")
              /\ r.reasoning_chain = PyList(<<>>)
              /\ r.localized_elements = PyList(<<PyNumber("7")>>)

\* C4 witness: the reply {"primary_response":"ok", "confidence_score":0.9, ..}
\* arrived in two blocks and generate returned "ok".
C4_Witness ==
  \E t \in Tasks :
    /\ StructuredReply(t)
    /\ Len(task[t].rsp.content) = 2
    /\ RawText(t) = OkWithConfidence
    /\ task[t].ret.value.response = PyStr(<<"ok">>)

\* C5: for a reply whose concatenated text is not JSON, the text of the record
\* is exactly the in-order concatenation of the blocks' texts, and confidence
\* score, reasoning steps and localized elements are absent.
C5_PlainTextVerbatim ==
  \A t \in Tasks :
    /\ Finished(t, "generate")
    /\ task[t].rsp.kind = "reply"
    /\ ~loads(RawConcatenation(task[t].rsp.content)).ok
    => /\ task[t].ret.kind = "return"
       /\ task[t].ret.value.success
       /\ task[t].ret.value.response = PyStr(RawConcatenation(task[t].rsp.content))
       /\ task[t].ret.value.confidence_score = PyNone
       /\ task[t].ret.value.reasoning_chain = PyNone
       /\ task[t].ret.value.localized_elements = PyNone

\* C5 witness: two different text blocks around a block without text, their
\* concatenation not JSON, returned verbatim.
C5_Witness ==
  \E t \in Tasks :
    /\ Finished(t, "generate")
    /\ task[t].rsp.kind = "reply"
    /\ Len(task[t].rsp.content) >= 2
    /\ task[t].rsp.content[1].type = "text"
    /\ task[t].rsp.content[2].type = "text"
    /\ task[t].rsp.content[1] # task[t].rsp.content[2]
    /\ ~loads(RawText(t)).ok
    /\ task[t].ret.value.response.v = task[t].rsp.content[1].text \o task[t].rsp.content[2].text

\* C6: for every failure the remote call propagates, the record has
\* success = false, a non-empty error, no text, and metadata holding the
\* elapsed time only.
C6_FailureRecord ==
  \A t \in Tasks :
    Finished(t, "generate") /\ task[t].rsp.kind = "error" =>
      /\ task[t].ret.kind = "return"
      /\ ~task[t].ret.value.success
      /\ task[t].ret.value.error.type = "str"
      /\ task[t].ret.value.error.v # <<>>
      /\ task[t].ret.value.response = PyNone
      /\ MetadataKeys(task[t].ret.value) = {<<"processing_time">>}

\* C6 witness: generate has returned after an authentication failure.
C6_Witness ==
  \E t \in Tasks :
    /\ Finished(t, "generate")
    /\ task[t].rsp.kind = "error"
    /\ task[t].rsp.exc.cls = "AuthenticationError"
    /\ task[t].ret.value.error = PyStr(<<"invalid x-api-key">>)

\* C7: on every path that serves orchestrate, a record is returned if and only
\* if the underlying generate succeeded; otherwise failure is signalled.
C7_OrchestrateSignalsFailure ==
  \A t \in Tasks :
    task[t].pc = "done" /\ task[t].op \in {"orchestrate", "http_orchestrate"} =>
      (task[t].ret.kind = "return"
         <=> task[t].gen.kind = "return" /\ task[t].gen.value.success)

\* C8: when the template name is absent or empty, or the templating capability
\* is unavailable, or the template file does not exist, the prompt sent to the
\* remote model is the input prompt, and no error is raised.
FallsBack(req) ==
  \/ ~Truthy(req.template_name)
  \/ ~HAS_POML
  \/ req.template_name.v \notin templates

C8_FallbackIsIdentity ==
  \A t \in Tasks :
    task[t].op \in GenerateOps /\ FallsBack(task[t].req) =>
      /\ Len(task[t].sent) = 1
      /\ task[t].sent[1].content = task[t].req.prompt
      /\ task[t].pc = "done" => task[t].rsp.kind # "none"

\* C8 witness: a call naming a template with variables while the templating
\* capability is unavailable has sent its prompt unchanged.
C8_Witness ==
  \E t \in Tasks :
    /\ task[t].op = "generate"
    /\ task[t].pc = "awaiting"
    /\ ~HAS_POML
    /\ task[t].req.template_name = PyStr(<<"code_review">>)
    /\ task[t].req.variables = StyleVariables
    /\ task[t].sent[1].content = task[t].req.prompt

\* C9 as stated: each generate call issues exactly one remote call.
C9_ExactlyOneCall ==
  \A t \in Tasks : Finished(t, "generate") => Len(task[t].sent) = 1

\* C9 (amended): each generate call issues at most one remote call, exactly
\* one unless template rendering raised (then none); the call is never the
\* health check's ping; once the outcome of the remote call (reply or failure)
\* has been converted into the result, nothing more is sent and the call ends.
RenderRaised(t) == task[t].pc = "done" /\ task[t].rsp.kind = "none"

C9_CallsOfGenerate ==
  \A t \in Tasks :
    task[t].op \in GenerateOps =>
      /\ Len(task[t].sent) <= 1
      /\ Len(task[t].sent) = (IF RenderRaised(t) THEN 0 ELSE 1)
      /\ RenderRaised(t) =>
           /\ HAS_POML
           /\ Truthy(task[t].req.template_name)
           /\ task[t].req.template_name.v \in templates
           /\ ~task[t].gen.value.success
      /\ \A i \in 1..Len(task[t].sent) :
           /\ task[t].sent[i] # HealthCall
           /\ task[t].sent[i].max_tokens = config.max_tokens
           /\ task[t].sent[i].temperature = PyStr(config.temperature)

C9_NoRetry ==
  \A t \in Tasks :
    /\ task[t].pc = "awaiting" /\ task'[t] # task[t] =>
         task'[t].pc = "done" /\ task'[t].sent = task[t].sent
    /\ task[t].pc = "done" /\ task'[t] # task[t] => task'[t] = Idle

C9_AtMostOneCallNoRetry == [](C9_CallsOfGenerate) /\ [][C9_NoRetry]_vars

\* C9 witness: a generate call whose single remote call failed has returned,
\* while a health check of another task has its ping in flight.
C9_Witness ==
  \E t, u \in Tasks :
    /\ Finished(t, "generate")
    /\ task[t].rsp.kind = "error"
    /\ Len(task[t].sent) = 1
    /\ task[u].op = "health_check"
    /\ task[u].pc = "awaiting"
    /\ task[u].sent = <<HealthCall>>

\* C10: under every interleaving no task changes the configuration or the
\* tool registry, a step of one task leaves every other task untouched, and
\* what a task hands to its caller is determined by its own request and its
\* own remote outcome.
OwnResult(t) ==
  LET op == task[t].op
      rsp == task[t].rsp
  IN IF op = "health_check"
     THEN (IF rsp.kind = "reply"
           THEN Returned([model |-> IntegratedConfig.claude_model, status |-> "healthy",
                          has_poml |-> HAS_POML, tools_available |-> ToolRegistry])
           ELSE Returned([error |-> PyStr(rsp.exc.message), status |-> "unhealthy"]))
     ELSE Finish(op, task[t].req,
                 generate_except(CASE rsp.kind = "reply" -> generate_body(rsp.content)
                                   [] rsp.kind = "error" -> Raised(rsp.exc)
                                   [] OTHER -> Raised(PomlError)))

OwnCall(t) ==
  IF task[t].op = "health_check"
  THEN [max_tokens |-> PingMaxTokens, temperature |-> PyNone,
        model |-> IntegratedConfig.claude_model, content |-> <<"ping">>]
  ELSE [max_tokens |-> IntegratedConfig.max_tokens,
        temperature |-> PyStr(IntegratedConfig.temperature),
        model |-> IntegratedConfig.claude_model,
        content |-> task[t].sent[1].content]

C10_OwnInputsOnly ==
  /\ config = IntegratedConfig
  /\ tools = ToolRegistry
  /\ \A t \in Tasks :
       /\ task[t].pc = "done" => task[t].ret = OwnResult(t)
       /\ task[t].sent # <<>> => task[t].sent = <<OwnCall(t)>>
  /\ \A t, u \in Tasks :
       /\ task[t].pc = "done" /\ task[u].pc = "done"
       /\ task[t].op = task[u].op
       /\ task[t].req = task[u].req
       /\ task[t].rsp = task[u].rsp
       => task[t].ret = task[u].ret

C10_OneTaskPerStep ==
  /\ config' = config
  /\ tools' = tools
  /\ HAS_POML' = HAS_POML
  /\ \E t \in Tasks : \A u \in Tasks \ {t} : task'[u] = task[u]

C10_Independent == [](C10_OwnInputsOnly) /\ [][C10_OneTaskPerStep]_vars

\* C10 witness: two tasks with different requests have both finished and
\* neither result has been taken yet; one holds a success record, the other a
\* failure record.
C10_Witness ==
  \E t, u \in Tasks :
    /\ t # u
    /\ Finished(t, "generate")
    /\ Finished(u, "generate")
    /\ task[t].req # task[u].req
    /\ task[t].rsp.kind = "reply"
    /\ task[u].rsp.kind = "error"
    /\ task[t].ret.value.success
    /\ ~task[u].ret.value.success

====
